---- MODULE Spec2Model ----
(***************************************************************************)
(* Model of the Connecto chat hub (src/api/Connecto.Api/Services/ChatHub.cs):*)
(* the connection registry, the matching queue, the session table, the     *)
(* routing groups and the disconnect grace timer.                          *)
(*                                                                         *)
(* The hub's static collections are the variables.  Every hub method is a  *)
(* pure operator from a hub record (the collections plus the events the    *)
(* call emits, and its outcome) to the hub record after the call; the      *)
(* actions apply them and keep the collections.                            *)
(* OnDisconnectedAsync suspends at Task.Delay and is two actions: the part *)
(* before the delay (Disconnect) and the part after it (GraceExpire).      *)
(***************************************************************************)
EXTENDS Integers, Sequences, FiniteSets, TLC

\* ------------------------------------------------------------ the inputs
\* Identities (the access_token of the handshake) and connection ids.  A
\* connection id belongs to the identity whose token its handshake carries.
Users == {"alice", "bob", "carol"}
Conns == {"a1", "a2", "b1", "c1"}
Owner(c) == CASE c \in {"a1", "a2"} -> "alice" [] c = "b1" -> "bob" [] OTHER -> "carol"
\* Display names a client may register, and the values of Guid.NewGuid().
GuestNames == {"Ann"}
Keys == {"k1", "k2"}
\* The payloads a client may send: a text, a base64 voice note, a base64
\* image (or none), a signal.
Messages == {"hi"}
Audios == {"AAAA"}
Images == {"", "IMG"}
SignalTypes == {"offer"}
\* The millisecond clock read for the session id runs from 0 to MaxClock.
MaxClock == 1
\* A behaviour makes at most MaxSteps handler steps (MaxGraceSteps, MaxConcSteps
\* in the specifications of the grace timer and of the interleaved handlers).
MaxSteps == 8
MaxGraceSteps == 9
MaxConcSteps == 7
MaxRelaySteps == 6

NoUser == "-"
Null == "null"
NoSession == [a |-> NoUser, b |-> NoUser, t |-> 0 - 1]

VARIABLES
    UserConnectionMap,   \* userId -> set of connectionIds
    ConnectionProfiles,  \* connectionId -> [UserId, GuestName]
    WaitingQueue,        \* the FIFO of userIds
    WaitingIndex,        \* presence set of the FIFO
    IdleIndex,           \* the idle set
    ActiveSessions,      \* sessionId -> [user1, user2]
    SessionKeys,         \* sessionId -> key
    Groups,              \* SignalR group membership: set of <<connectionId, group>>
    live,                \* connections whose transport is connected
    now,                 \* DateTimeOffset.UtcNow, in milliseconds
    graceTimers,         \* disconnect handlers waiting in Task.Delay, oldest first
    pc,                  \* per connection: where its running hub method stands
    loc,                 \* per connection: the locals of its running hub method
    budget,              \* the number of handler steps the behaviour may still make
    joined,              \* history: <<connectionId, sessionId>> for the connections
                         \* JoinChat put in a session's group, while the connection
                         \* stays attached and the session stays in the table
    listening,           \* connections whose web client has its handlers registered
    inbox,               \* per connection: the events sent to it, not yet handled
    callState,           \* per client: CallService.callState
    currentState,        \* per client: RandomChatComponent.currentState
    ended                \* history: endCall or rejectCall was invoked and no
                         \* startCall since

hubVars == <<UserConnectionMap, ConnectionProfiles, WaitingQueue, WaitingIndex,
             IdleIndex, ActiveSessions, SessionKeys, Groups>>
vars == <<UserConnectionMap, ConnectionProfiles, WaitingQueue, WaitingIndex,
          IdleIndex, ActiveSessions, SessionKeys, Groups, live, now,
          graceTimers, pc, loc, budget, joined,
          listening, inbox, callState, currentState, ended>>

\* ------------------------------------------------------- small utilities
RemoveKey(f, k) == [x \in DOMAIN f \ {k} |-> f[x]]
PutKey(f, k, v) == (k :> v) @@ f
Range(s) == {s[i] : i \in 1..Len(s)}

RECURSIVE SetToSeq(_)
SetToSeq(S) == IF S = {} THEN <<>>
               ELSE LET x == CHOOSE y \in S : TRUE IN <<x>> \o SetToSeq(S \ {x})

\* The hub record a handler starts from: the collections, no event sent yet.
NoRes == [user |-> NoUser, matched |-> NoUser, paired |-> FALSE, hit |-> FALSE,
          sid |-> NoSession, other |-> NoUser, teardown |-> FALSE,
          aborted |-> FALSE]
Hub == [ucm |-> UserConnectionMap, prof |-> ConnectionProfiles,
        wq |-> WaitingQueue, wi |-> WaitingIndex, idle |-> IdleIndex,
        sess |-> ActiveSessions, keys |-> SessionKeys, grp |-> Groups,
        out |-> <<>>, res |-> NoRes]

\* The session ids: "{userId}-{matchedUserId}-{ms}".
SessionIds == {[a |-> u, b |-> v, t |-> t] : u \in Users, v \in Users, t \in 0..MaxClock}
\* The session id of an earlier pairing, which a client may still hold.
OldSessionId == [a |-> "bob", b |-> "alice", t |-> 0]

\* ------------------------------------------------- helpers: send / name
\* Clients.Caller.SendAsync / Clients.Client(cid).SendAsync
Send(h, c, method, payload) ==
    [h EXCEPT !.out = Append(@, [to |-> c, method |-> method, payload |-> payload])]

HasConnections(h, userId) == userId \in DOMAIN h.ucm /\ h.ucm[userId] # {}

ConnsOf(h, userId) == IF userId \in DOMAIN h.ucm THEN h.ucm[userId] ELSE {}

SendToUser_OneConnection(h, userId, method, payload) ==
    IF ~HasConnections(h, userId) THEN h
    ELSE Send(h, CHOOSE c \in h.ucm[userId] : TRUE, method, payload)

SendToUser(h, userId, method, payload) ==
    IF ~HasConnections(h, userId) THEN h
    ELSE LET cs == SetToSeq(h.ucm[userId])
         IN [h EXCEPT !.out = @ \o [i \in 1..Len(cs) |->
                        [to |-> cs[i], method |-> method, payload |-> payload]]]

\* The values TryGetAnyGuestNameForUser may return: the first non-empty guest
\* name met while iterating the identity's HashSet of connections (any of
\* them, the iteration order being unspecified), or null.
TryGetAnyGuestNameForUser(h, userId) ==
    LET named == IF userId \in DOMAIN h.ucm
                 THEN {c \in h.ucm[userId] : c \in DOMAIN h.prof /\ h.prof[c].GuestName # ""}
                 ELSE {}
    IN IF named = {} THEN {Null} ELSE {h.prof[c].GuestName : c \in named}

\* One outcome of every name lookup a handler makes.
Resolvers(h) == {f \in [Users -> GuestNames \cup {Null}] :
                    \A u \in Users : f[u] \in TryGetAnyGuestNameForUser(h, u)}
OrElse(v, d) == IF v = Null THEN d ELSE v

BroadcastActiveUserCount(h) ==
    Send(h, "*", "ActiveUserCountUpdated", [count |-> Cardinality(DOMAIN h.prof)])

\* ------------------------------------------------------ helpers: queue
RebuildWaitingQueueExcluding(h, excludeUserId) ==
    [h EXCEPT !.wq = SelectSeq(@, LAMBDA u : u # excludeUserId)]

\* RebuildWaitingQueueExcluding is three steps on the shared queue: the
\* snapshot of line 610, the drain of line 611, the re-enqueue of line 612.
RebuildSnapshot(h, excludeUserId) == SelectSeq(h.wq, LAMBDA u : u # excludeUserId)

RebuildDrain(h) == [h EXCEPT !.wq = <<>>]

RebuildReenqueue(h, remaining) == [h EXCEPT !.wq = @ \o remaining]

\* EnqueueWaiting is two steps on the shared collections: line 567, and
\* lines 568-569.
EnqueueIdleRemove(h, userId) == [h EXCEPT !.idle = @ \ {userId}]

EnqueueTryAdd_NoPresenceCheck(h, userId) ==
    [h EXCEPT !.wi = @ \cup {userId}, !.wq = Append(@, userId)]

EnqueueTryAdd(h, userId) ==
    IF userId \notin h.wi
    THEN [h EXCEPT !.wi = @ \cup {userId}, !.wq = Append(@, userId)]
    ELSE h

EnqueueWaiting(h, userId) == EnqueueTryAdd(EnqueueIdleRemove(h, userId), userId)

RECURSIVE DequeueLoop(_, _)
DequeueLoop(q, wi) ==
    IF q = <<>> THEN [ok |-> FALSE, userId |-> NoUser, wq |-> q, wi |-> wi]
    ELSE IF Head(q) \in wi
         THEN [ok |-> TRUE, userId |-> Head(q), wq |-> Tail(q), wi |-> wi \ {Head(q)}]
         ELSE DequeueLoop(Tail(q), wi)

\* [ok, userId, h]: the result, the out parameter and the hub afterwards.
TryDequeueWaiting(h) ==
    LET d == DequeueLoop(h.wq, h.wi)
    IN [ok |-> d.ok, userId |-> d.userId, h |-> [h EXCEPT !.wq = d.wq, !.wi = d.wi]]

MoveToIdle_KeepsWaiting(h, userId) == [h EXCEPT !.idle = @ \cup {userId}]

MoveToIdle(h, userId) ==
    [h EXCEPT !.wi = @ \ {userId}, !.idle = @ \cup {userId}]

WaitingIndexTryRemove(h, userId) == [h EXCEPT !.wi = @ \ {userId}]

IdleIndexTryRemove(h, userId) == [h EXCEPT !.idle = @ \ {userId}]

RemoveFromIdle(h, userId) ==
    IF userId = "" THEN h
    ELSE RebuildWaitingQueueExcluding(
             [h EXCEPT !.idle = @ \ {userId}, !.wi = @ \ {userId}], userId)

AddUserToGroup_None(h, userId, group) == h

\* Groups.AddToGroupAsync / RemoveFromGroupAsync for every connection of a user
AddUserToGroup(h, userId, group) ==
    IF userId \in DOMAIN h.ucm
    THEN [h EXCEPT !.grp = @ \cup {<<c, group>> : c \in h.ucm[userId]}]
    ELSE h

RemoveUserFromGroup(h, userId, group) ==
    IF userId \in DOMAIN h.ucm
    THEN [h EXCEPT !.grp = @ \ {<<c, group>> : c \in h.ucm[userId]}]
    ELSE h

SessionsOf(h, userId) ==
    {s \in DOMAIN h.sess : h.sess[s].user1 = userId \/ h.sess[s].user2 = userId}

OtherUser(users, userId) == IF users.user1 = userId THEN users.user2 ELSE users.user1

\* ------------------------------------------------------------ hub methods
OnConnectedAsync_NoIdentityCheck(h, c, userId) ==
    LET h1 == [h EXCEPT
                 !.ucm = IF userId \in DOMAIN @
                         THEN [@ EXCEPT ![userId] = @ \cup {c}]
                         ELSE PutKey(@, userId, {c}),
                 !.prof = PutKey(@, c, [UserId |-> userId, GuestName |-> ""])]
    IN BroadcastActiveUserCount(Send(h1, c, "ReceiveConnectionId", [connectionId |-> c]))

\* res.aborted: the handler called Context.Abort (line 31).
OnConnectedAsync(h, c, userId) ==
    IF userId = ""
    THEN [Send(h, c, "Error", [text |-> "Missing userId"])
          EXCEPT !.res = [NoRes EXCEPT !.aborted = TRUE]]
    ELSE LET h1 == [h EXCEPT
                      !.ucm = IF userId \in DOMAIN @
                              THEN [@ EXCEPT ![userId] = @ \cup {c}]
                              ELSE PutKey(@, userId, {c}),
                      !.prof = PutKey(@, c, [UserId |-> userId, GuestName |-> ""])]
         IN BroadcastActiveUserCount(
                Send(h1, c, "ReceiveConnectionId", [connectionId |-> c]))

RegisterUser(h, c, guestName) ==
    IF c \in DOMAIN h.prof
    THEN [h EXCEPT !.prof[c] = [UserId |-> @.UserId, GuestName |-> guestName]]
    ELSE h

JoinKeepsWaiting_NoStaleCheck(h, userId, ok, matchedUserId) ==
    \/ ~ok
    \/ matchedUserId = userId

JoinKeepsWaiting_NoSelfGuard(h, userId, ok, matchedUserId) ==
    \/ ~ok
    \/ ~HasConnections(h, matchedUserId)

\* The branches of JoinChat that enqueue the caller: nothing dequeued (line
\* 157), a dequeued identity without connections (89), the caller itself (97).
JoinKeepsWaiting(h, userId, ok, matchedUserId) ==
    \/ ~ok
    \/ ~HasConnections(h, matchedUserId)
    \/ matchedUserId = userId

SessionUpdatePayload_PartnerIsMe(sessionId, meId, meName, partnerId, partnerName, key) ==
    [sessionId |-> sessionId,
     me |-> [id |-> meId, name |-> meName],
     partner |-> [id |-> meId, name |-> meName],
     key |-> key]

\* The anonymous object sent with SessionUpdate: lines 141-155.
SessionUpdatePayload(sessionId, meId, meName, partnerId, partnerName, key) ==
    [sessionId |-> sessionId,
     me |-> [id |-> meId, name |-> meName],
     partner |-> [id |-> partnerId, name |-> partnerName],
     key |-> key]

\* JoinChat after TryDequeueWaiting returned (ok, matchedUserId): lines 86-161.
JoinChatMatch(h, c, userId, ok, matchedUserId, t, key, pick) ==
    LET keepWaiting ==
            [Send(EnqueueWaiting(h, userId), c, "Waiting",
                  [text |-> "Waiting for a match..."])
             EXCEPT !.res = [NoRes EXCEPT !.user = userId, !.matched = matchedUserId]]
    IN IF JoinKeepsWaiting(h, userId, ok, matchedUserId) THEN keepWaiting
       ELSE LET sessionId == [a |-> userId, b |-> matchedUserId, t |-> t]
                h1 == [h EXCEPT
                         !.sess = PutKey(@, sessionId,
                                         [user1 |-> userId, user2 |-> matchedUserId]),
                         !.keys = PutKey(@, sessionId, key)]
                h2 == AddUserToGroup(AddUserToGroup(h1, userId, sessionId),
                                     matchedUserId, sessionId)
                h3 == RemoveFromIdle(RemoveFromIdle(h2, userId), matchedUserId)
                meName == OrElse(pick[userId], "Unknown")
                partnerName == OrElse(pick[matchedUserId], "Unknown")
                h4 == SendToUser(h3, userId, "SessionUpdate",
                        SessionUpdatePayload(sessionId, userId, meName,
                                             matchedUserId, partnerName, key))
                h5 == SendToUser(h4, matchedUserId, "SessionUpdate",
                        SessionUpdatePayload(sessionId, matchedUserId, partnerName,
                                             userId, meName, key))
            IN [h5 EXCEPT !.res = [NoRes EXCEPT !.user = userId,
                                     !.matched = matchedUserId, !.paired = TRUE,
                                     !.sid = sessionId, !.other = matchedUserId]]

\* The awaits of the pairing branch of JoinChat: lines 118, 128, 141, 149.
AwaitPoints == {"groupsOfCaller", "groupsOfMatched", "sendToCaller", "sendToMatched"}

\* The catch block of JoinChat: lines 163-169.
JoinChatCatch(h, c, userId) ==
    Send(EnqueueWaiting(h, userId), c, "Waiting", [text |-> "Error occurred. Try again."])

\* JoinChat when the await at point throws: the pairing branch up to that
\* await (lines 104-149), then the catch block.  A call that does not reach
\* the pairing branch runs as JoinChat.
JoinChatThrows(h, c, t, key, pick, point) ==
    IF c \notin DOMAIN h.prof
    THEN Send(h, c, "Waiting", [text |-> "User not registered properly."])
    ELSE LET d == TryDequeueWaiting(h)
             userId == h.prof[c].UserId
             matchedUserId == d.userId
         IN IF JoinKeepsWaiting(d.h, userId, d.ok, matchedUserId)
            THEN JoinChatMatch(d.h, c, userId, d.ok, matchedUserId, t, key, pick)
            ELSE LET sessionId == [a |-> userId, b |-> matchedUserId, t |-> t]
                     h1 == [d.h EXCEPT
                              !.sess = PutKey(@, sessionId,
                                              [user1 |-> userId, user2 |-> matchedUserId]),
                              !.keys = PutKey(@, sessionId, key)]
                     h2 == AddUserToGroup(h1, userId, sessionId)
                     h3 == AddUserToGroup(h2, matchedUserId, sessionId)
                     h4 == RemoveFromIdle(RemoveFromIdle(h3, userId), matchedUserId)
                     meName == OrElse(pick[userId], "Unknown")
                     partnerName == OrElse(pick[matchedUserId], "Unknown")
                     h5 == SendToUser(h4, userId, "SessionUpdate",
                             SessionUpdatePayload(sessionId, userId, meName,
                                                  matchedUserId, partnerName, key))
                     reached == CASE point = "groupsOfCaller" -> h1
                                  [] point = "groupsOfMatched" -> h2
                                  [] point = "sendToCaller" -> h4
                                  [] OTHER -> h5
                 IN [JoinChatCatch(reached, c, userId)
                     EXCEPT !.res = [NoRes EXCEPT !.user = userId,
                                       !.matched = matchedUserId, !.hit = TRUE,
                                       !.sid = sessionId, !.other = matchedUserId]]

JoinChat(h, c, t, key, pick) ==
    IF c \notin DOMAIN h.prof
    THEN Send(h, c, "Waiting", [text |-> "User not registered properly."])
    ELSE LET d == TryDequeueWaiting(h)
         IN JoinChatMatch(d.h, c, h.prof[c].UserId, d.ok, d.userId, t, key, pick)

\* SkipChat once ActiveSessions.TryRemove found the session: lines 178-205.
SkipChatRemoved(h, userId, sessionId, skipperName) ==
    LET users == h.sess[sessionId]
        otherUserId == OtherUser(users, userId)
        h1 == [h EXCEPT !.sess = RemoveKey(@, sessionId)]
        h2 == SendToUser(h1, otherUserId, "PartnerSkipped",
                 [name |-> skipperName, text |-> "left the chat."])
        h3 == SendToUser(h2, userId, "YouSkipped", [text |-> "You left the chat."])
        h4 == RemoveUserFromGroup(RemoveUserFromGroup(h3, userId, sessionId),
                                  otherUserId, sessionId)
        h5 == [h4 EXCEPT !.keys = RemoveKey(@, sessionId)]
        h6 == MoveToIdle(MoveToIdle(h5, userId), otherUserId)
    IN [h6 EXCEPT !.res = [NoRes EXCEPT !.user = userId, !.hit = TRUE,
                             !.sid = sessionId, !.other = otherUserId]]

SkipChat_IdleOnMiss(h, c, sessionId, pick) ==
    IF c \notin DOMAIN h.prof THEN h
    ELSE LET userId == h.prof[c].UserId
         IN IF sessionId \notin DOMAIN h.sess
            THEN [MoveToIdle(h, userId) EXCEPT !.res = [NoRes EXCEPT !.user = userId]]
            ELSE SkipChatRemoved(h, userId, sessionId, OrElse(pick[userId], "Partner"))

SkipChat(h, c, sessionId, pick) ==
    IF c \notin DOMAIN h.prof THEN h
    ELSE LET userId == h.prof[c].UserId
             skipperName == OrElse(pick[userId], "Partner")
         IN IF sessionId \notin DOMAIN h.sess
            THEN [h EXCEPT !.res = [NoRes EXCEPT !.user = userId]]
            ELSE SkipChatRemoved(h, userId, sessionId, skipperName)

\* The foreach of NextChat over ActiveSessions.ToArray(): lines 216-237.
RECURSIVE NextChatCleanup(_, _, _)
NextChatCleanup(h, userId, todo) ==
    IF todo = {} THEN h
    ELSE LET s == CHOOSE x \in todo : TRUE
             otherUserId == OtherUser(h.sess[s], userId)
             h1 == [h EXCEPT !.sess = RemoveKey(@, s), !.keys = RemoveKey(@, s)]
             h2 == RemoveUserFromGroup(RemoveUserFromGroup(h1, userId, s),
                                       otherUserId, s)
         IN NextChatCleanup(h2, userId, todo \ {s})

\* NextChat up to its call of JoinChat: lines 211-242.
NextChatRequeue(h, userId) ==
    LET h1 == NextChatCleanup(h, userId, SessionsOf(h, userId))
    IN EnqueueWaiting(WaitingIndexTryRemove(RemoveFromIdle(h1, userId), userId), userId)

NextChat(h, c, t, key, pick) ==
    IF c \notin DOMAIN h.prof THEN h
    ELSE JoinChat(NextChatRequeue(h, h.prof[c].UserId), c, t, key, pick)

\* OnDisconnectedAsync up to Task.Delay (lines 319-347), or to its end when
\* the connection was not the identity's last.  res.teardown: the handler
\* goes on to wait for the grace window.
OnDisconnectedAsync(h, c) ==
    IF c \notin DOMAIN h.prof THEN BroadcastActiveUserCount(h)
    ELSE LET userId == h.prof[c].UserId
             h1 == [h EXCEPT !.prof = RemoveKey(@, c)]
         IN IF userId \in DOMAIN h1.ucm
            THEN LET h2 == [h1 EXCEPT !.ucm[userId] = @ \ {c}]
                 IN IF h2.ucm[userId] = {}
                    THEN [h2 EXCEPT !.res = [NoRes EXCEPT !.user = userId,
                                                !.teardown = TRUE]]
                    ELSE [BroadcastActiveUserCount(h2)
                          EXCEPT !.res = [NoRes EXCEPT !.user = userId]]
            ELSE [BroadcastActiveUserCount(h1)
                  EXCEPT !.res = [NoRes EXCEPT !.user = userId]]

\* OnDisconnectedAsync after Task.Delay: lines 349-384.  session is the entry
\* FirstOrDefault returns (NoSession when no session holds the identity).
FullDisconnect_KeepsEntry(h, userId, departingName, session) ==
    LET h2 == RebuildWaitingQueueExcluding(
                  IdleIndexTryRemove(WaitingIndexTryRemove(h, userId), userId),
                  userId)
    IN IF session = NoSession
       THEN [BroadcastActiveUserCount(h2)
             EXCEPT !.res = [NoRes EXCEPT !.user = userId, !.teardown = TRUE]]
       ELSE LET otherUserId == OtherUser(h2.sess[session], userId)
                h3 == [h2 EXCEPT !.sess = RemoveKey(@, session)]
                h4 == SendToUser(h3, otherUserId, "PartnerDisconnected",
                         [name |-> departingName, text |-> "left the chat."])
                h5 == MoveToIdle(h4, otherUserId)
                h6 == [h5 EXCEPT !.keys = RemoveKey(@, session)]
            IN [BroadcastActiveUserCount(h6)
                EXCEPT !.res = [NoRes EXCEPT !.user = userId, !.teardown = TRUE,
                                  !.hit = TRUE, !.sid = session,
                                  !.other = otherUserId]]

\* The full disconnect of lines 357-384, entered with isPhysicallyConnected
\* false.
FullDisconnect(h, userId, departingName, session) ==
    LET h1 == [h EXCEPT !.ucm = RemoveKey(@, userId)]
        h2 == RebuildWaitingQueueExcluding(
                  IdleIndexTryRemove(WaitingIndexTryRemove(h1, userId), userId),
                  userId)
    IN IF session = NoSession
       THEN [BroadcastActiveUserCount(h2)
             EXCEPT !.res = [NoRes EXCEPT !.user = userId, !.teardown = TRUE]]
       ELSE LET otherUserId == OtherUser(h2.sess[session], userId)
                h3 == [h2 EXCEPT !.sess = RemoveKey(@, session)]
                h4 == SendToUser(h3, otherUserId, "PartnerDisconnected",
                         [name |-> departingName, text |-> "left the chat."])
                h5 == MoveToIdle(h4, otherUserId)
                h6 == [h5 EXCEPT !.keys = RemoveKey(@, session)]
            IN [BroadcastActiveUserCount(h6)
                EXCEPT !.res = [NoRes EXCEPT !.user = userId, !.teardown = TRUE,
                                  !.hit = TRUE, !.sid = session,
                                  !.other = otherUserId]]

\* The handler found a connection at the re-check: lines 349-355, 383-384.
StillConnected(h, userId) ==
    [BroadcastActiveUserCount(h) EXCEPT !.res = [NoRes EXCEPT !.user = userId]]

OnDisconnectedAfterDelay(h, userId, departingName, session) ==
    IF HasConnections(h, userId)
    THEN StillConnected(h, userId)
    ELSE FullDisconnect(h, userId, departingName, session)

\* The foreach of RemoveUser over ActiveSessions.ToArray(): lines 404-417.
RECURSIVE RemoveUserSessions(_, _, _)
RemoveUserSessions(h, userId, todo) ==
    IF todo = {} THEN h
    ELSE LET s == CHOOSE x \in todo : TRUE
             otherUserId == OtherUser(h.sess[s], userId)
             h1 == [h EXCEPT !.sess = RemoveKey(@, s)]
             h2 == SendToUser(h1, otherUserId, "PartnerDisconnected",
                      [name |-> "Partner", text |-> "left the chat."])
             h3 == MoveToIdle(h2, otherUserId)
             h4 == [h3 EXCEPT !.keys = RemoveKey(@, s)]
         IN RemoveUserSessions(h4, userId, todo \ {s})

\* RemoveUser up to its call of RebuildWaitingQueueExcluding: lines 390-400.
RemoveUserBegin(h, userId) ==
    LET conns == h.ucm[userId]
        h1 == [h EXCEPT !.ucm = RemoveKey(@, userId),
                        !.prof = [c \in DOMAIN @ \ conns |-> @[c]]]
    IN IdleIndexTryRemove(WaitingIndexTryRemove(h1, userId), userId)

\* RemoveUser after RebuildWaitingQueueExcluding returned: lines 403-419.
RemoveUserFinish(h, userId) ==
    [RemoveUserSessions(h, userId, SessionsOf(h, userId))
     EXCEPT !.res = [NoRes EXCEPT !.user = userId, !.teardown = TRUE]]

RemoveUser(h, userId) ==
    IF userId \notin DOMAIN h.ucm THEN h
    ELSE LET conns == h.ucm[userId]
             h1 == [h EXCEPT !.ucm = RemoveKey(@, userId),
                             !.prof = [c \in DOMAIN @ \ conns |-> @[c]]]
             h2 == RebuildWaitingQueueExcluding(
                       IdleIndexTryRemove(WaitingIndexTryRemove(h1, userId), userId),
                       userId)
             h3 == RemoveUserSessions(h2, userId, SessionsOf(h2, userId))
         IN [h3 EXCEPT !.res = [NoRes EXCEPT !.user = userId, !.teardown = TRUE]]

\* ------------------------------------------------ hub methods: relaying
\* Clients.Group(group).SendAsync: one event to every member of the group.
GroupSend(h, group, method, payload) ==
    LET cs == SetToSeq({c \in Conns : <<c, group>> \in h.grp})
    IN [h EXCEPT !.out = @ \o [i \in 1..Len(cs) |->
                   [to |-> cs[i], method |-> method, payload |-> payload]]]

IsParticipant(pair, userId) == pair.user1 = userId \/ pair.user2 = userId

SendMessage_NoSessionCheck(h, c, sessionId, message, pick) ==
    IF c \notin DOMAIN h.prof
    THEN Send(h, c, "Error", [text |-> "User not found."])
    ELSE GroupSend(h, sessionId, "ReceiveMessage",
                   [userId |-> h.prof[c].UserId,
                    from |-> OrElse(pick[h.prof[c].UserId], "Unknown"),
                    text |-> message])

SendMessage_AbortsOnInvalid(h, c, sessionId, message, pick) ==
    IF c \notin DOMAIN h.prof
    THEN Send(h, c, "Error", [text |-> "User not found."])
    ELSE LET userId == h.prof[c].UserId
         IN IF sessionId \notin DOMAIN h.sess
            THEN [Send(h, c, "Error", [text |-> "Invalid session."])
                  EXCEPT !.res = [NoRes EXCEPT !.aborted = TRUE]]
            ELSE IF ~IsParticipant(h.sess[sessionId], userId)
            THEN Send(h, c, "Error", [text |-> "Invalid session for user."])
            ELSE GroupSend(h, sessionId, "ReceiveMessage",
                           [userId |-> userId,
                            from |-> OrElse(pick[userId], "Unknown"),
                            text |-> message])

SendMessage(h, c, sessionId, message, pick) ==
    IF c \notin DOMAIN h.prof
    THEN Send(h, c, "Error", [text |-> "User not found."])
    ELSE LET userId == h.prof[c].UserId
         IN IF sessionId \notin DOMAIN h.sess
            THEN Send(h, c, "Error", [text |-> "Invalid session."])
            ELSE IF ~IsParticipant(h.sess[sessionId], userId)
            THEN Send(h, c, "Error", [text |-> "Invalid session for user."])
            ELSE GroupSend(h, sessionId, "ReceiveMessage",
                           [userId |-> userId,
                            from |-> OrElse(pick[userId], "Unknown"),
                            text |-> message])

SendVoiceNote(h, c, sessionId, base64Audio, pick) ==
    IF c \notin DOMAIN h.prof
    THEN Send(h, c, "Error", [text |-> "User not found."])
    ELSE GroupSend(h, sessionId, "ReceiveVoiceNote",
                   [userId |-> h.prof[c].UserId,
                    from |-> OrElse(pick[h.prof[c].UserId], "Unknown"),
                    audio |-> base64Audio])

SendImage(h, sessionId, fromUser, base64Image, pick) ==
    LET h1 == GroupSend(h, sessionId, "UploadingImage", [From |-> fromUser])
    IN IF base64Image = "" THEN h1
       ELSE GroupSend(h1, sessionId, "ReceiveImage",
                      [userId |-> fromUser,
                       from |-> OrElse(pick[fromUser], "Unknown"),
                       Base64 |-> base64Image])

SendSignal(h, sessionId, fromUser, signalType, data) ==
    GroupSend(h, sessionId, "ReceiveSignal",
              [From |-> fromUser, Type |-> signalType, Data |-> data])

SendTyping(h, fromUser, toUser, pick) ==
    SendToUser(h, toUser, "UserTyping", [From |-> OrElse(pick[fromUser], "User")])

SendTypingStopped(h, fromUser, toUser) ==
    SendToUser(h, toUser, "UserTypingStopped", [From |-> fromUser])

Ping(h, c) == Send(h, c, "Pong", [text |-> ""])

\* The group "call_{sessionId}".
CallGroup(sessionId) == [call |-> sessionId]

StartCall(h, c, sessionId, fromUser, toUser, pick) ==
    LET callGroup == CallGroup(sessionId)
        h1 == IF fromUser \in DOMAIN h.ucm
              THEN AddUserToGroup(h, fromUser, callGroup)
              ELSE [h EXCEPT !.grp = @ \cup {<<c, callGroup>>}]
        h2 == AddUserToGroup(h1, toUser, callGroup)
        h3 == SendToUser(h2, fromUser, "OutgoingCallStarted",
                 [To |-> OrElse(pick[toUser], "Unknown"), SessionId |-> sessionId])
    IN SendToUser(h3, toUser, "IncomingCall",
           [From |-> OrElse(pick[fromUser], "Unknown"), SessionId |-> sessionId])

AcceptCall(h, sessionId, fromUser, toUser) ==
    SendToUser(SendToUser(h, fromUser, "CallAccepted",
                          [From |-> toUser, SessionId |-> sessionId]),
               toUser, "CallAccepted", [From |-> fromUser, SessionId |-> sessionId])

RejectCall(h, sessionId, fromUser, toUser) ==
    SendToUser(SendToUser(h, fromUser, "CallRejected",
                          [From |-> toUser, SessionId |-> sessionId]),
               toUser, "CallRejected", [From |-> toUser, SessionId |-> sessionId])

EndCall(h, sessionId, fromUser, toUser) ==
    LET h1 == SendToUser(h, fromUser, "CallEnded",
                         [From |-> toUser, SessionId |-> sessionId])
        h2 == SendToUser(h1, toUser, "CallEnded",
                         [From |-> fromUser, SessionId |-> sessionId])
    IN RemoveUserFromGroup(RemoveUserFromGroup(h2, fromUser, CallGroup(sessionId)),
                           toUser, CallGroup(sessionId))

JoinSession(h, c, sessionId, userId) ==
    LET h1 == [h EXCEPT !.grp = @ \cup {<<c, sessionId>>}]
    IN IF c \notin DOMAIN h1.prof
       THEN [h1 EXCEPT !.prof = PutKey(@, c, [UserId |-> userId, GuestName |-> ""])]
       ELSE h1

\* ---------------------------------------------------------------- actions
NoLoc == [userId |-> NoUser, ok |-> FALSE, matched |-> NoUser, remaining |-> <<>>]

\* The events the web client registers a handler for, and PartnerDisconnected
\* and OutgoingCallStarted, for which it registers none.
ClientEvents == {"SessionUpdate", "Waiting", "PartnerSkipped", "YouSkipped",
                 "PartnerDisconnected", "IncomingCall", "OutgoingCallStarted",
                 "CallAccepted", "CallRejected", "CallEnded"}

TypeOK ==
    /\ DOMAIN UserConnectionMap \subseteq Users
    /\ \A u \in DOMAIN UserConnectionMap : UserConnectionMap[u] \subseteq Conns
    /\ DOMAIN ConnectionProfiles \subseteq Conns
    /\ Range(WaitingQueue) \subseteq Users
    /\ WaitingIndex \subseteq Users
    /\ IdleIndex \subseteq Users
    /\ DOMAIN ActiveSessions \subseteq SessionIds
    /\ DOMAIN SessionKeys \subseteq SessionIds
    /\ live \subseteq Conns
    /\ now \in 0..MaxClock
    /\ pc \in [Conns -> {"idle", "join", "enqueue", "requeued", "fullDisconnect",
                       "drain", "reenqueue"}]
    /\ budget >= 0
    /\ joined \subseteq Conns \X SessionIds
    /\ listening \subseteq Conns
    /\ callState \in [Conns -> {"idle", "calling", "incoming", "in-call"}]
    /\ currentState \in [Conns -> {"chatting", "ended", "searching", "skipping"}]
    /\ \A c \in Conns : Range(inbox[c]) \subseteq ClientEvents
    /\ ended \in BOOLEAN

\* No web client has registered its handlers.
NoClients ==
    /\ listening = {}
    /\ inbox = [c \in Conns |-> <<>>]
    /\ callState = [c \in Conns |-> "idle"]
    /\ currentState = [c \in Conns |-> "searching"]
    /\ ended = FALSE

\* The state after construction: every static collection empty.
Fresh ==
    /\ UserConnectionMap = <<>>
    /\ ConnectionProfiles = <<>>
    /\ WaitingQueue = <<>>
    /\ WaitingIndex = {}
    /\ IdleIndex = {}
    /\ ActiveSessions = <<>>
    /\ SessionKeys = <<>>
    /\ Groups = {}
    /\ live = {}
    /\ now = 0
    /\ graceTimers = <<>>
    /\ pc = [c \in Conns |-> "idle"]
    /\ loc = [c \in Conns |-> NoLoc]
    /\ joined = {}
    /\ NoClients

Init == Fresh /\ budget = MaxSteps

\* The connections lines 111-130 of JoinChat add to the group of the session
\* the call created.
GroupedByJoin(r) ==
    IF r.res.paired
    THEN {<<c, r.res.sid>> : c \in ConnsOf(r, r.res.user) \cup ConnsOf(r, r.res.matched)}
    ELSE {}

\* The events of out a listening client of connection c is still to handle.
Deliver(out) ==
    [c \in Conns |->
        IF c \in listening \cap live
        THEN LET sent == SelectSeq(out, LAMBDA e : e.to = c /\ e.method \in ClientEvents)
             IN inbox[c] \o [i \in 1..Len(sent) |-> sent[i].method]
        ELSE inbox[c]]

\* The collections after a handler step returned the hub record r, and the
\* events it sent on their way to the listening clients.
InstallHub(r) ==
    /\ budget > 0
    /\ budget' = budget - 1
    /\ UserConnectionMap' = r.ucm
    /\ ConnectionProfiles' = r.prof
    /\ WaitingQueue' = r.wq
    /\ WaitingIndex' = r.wi
    /\ IdleIndex' = r.idle
    /\ ActiveSessions' = r.sess
    /\ SessionKeys' = r.keys
    /\ Groups' = r.grp
    /\ joined' = {m \in joined \cup GroupedByJoin(r) :
                     m[1] \in DOMAIN r.prof /\ m[2] \in DOMAIN r.sess}
    /\ inbox' = Deliver(r.out)
    /\ listening' = listening

\* A handler step during which no client changes its own state.
Install(r) ==
    /\ InstallHub(r)
    /\ UNCHANGED <<callState, currentState, ended>>

TimerPending(c) == \E i \in 1..Len(graceTimers) : graceTimers[i].conn = c

\* A transport connects with the identity token of its owner, or with none.
\* After Context.Abort the connection closes, SignalR runs OnDisconnectedAsync
\* for it, and it never becomes live.
Connect(c, token) ==
    /\ c \notin live
    /\ ~TimerPending(c)
    /\ LET r == OnConnectedAsync(Hub, c, token)
       IN /\ Install(IF r.res.aborted THEN OnDisconnectedAsync(r, c) ELSE r)
          /\ live' = IF r.res.aborted THEN live ELSE live \cup {c}
    /\ UNCHANGED <<now, graceTimers, pc, loc>>

Register(c, guestName) ==
    /\ c \in live
    /\ Install(RegisterUser(Hub, c, guestName))
    /\ UNCHANGED <<live, now, graceTimers, pc, loc>>

\* The clock read for the session id is any time from now on.
Join(c) ==
    /\ c \in live
    /\ \E t \in now..MaxClock, key \in Keys, pick \in Resolvers(Hub) :
          /\ Install(JoinChat(Hub, c, t, key, pick))
          /\ now' = t
    /\ UNCHANGED <<live, graceTimers, pc, loc>>

Skip(c, sessionId) ==
    /\ c \in live
    /\ pc[c] = "idle"
    /\ \E pick \in Resolvers(Hub) : Install(SkipChat(Hub, c, sessionId, pick))
    /\ UNCHANGED <<live, now, graceTimers, pc, loc>>

Next(c) ==
    /\ c \in live
    /\ \E t \in now..MaxClock, key \in Keys, pick \in Resolvers(Hub) :
          /\ Install(NextChat(Hub, c, t, key, pick))
          /\ now' = t
    /\ UNCHANGED <<live, graceTimers, pc, loc>>

\* The transport of c closes: SignalR drops c from every group and runs
\* OnDisconnectedAsync, which returns or starts the grace window.
Disconnect(c) ==
    /\ c \in live
    /\ LET h == [Hub EXCEPT !.grp = {m \in @ : m[1] # c}]
           r == OnDisconnectedAsync(h, c)
       IN /\ Install(r)
          /\ graceTimers' =
                IF r.res.teardown
                THEN Append(graceTimers,
                            [conn |-> c, userId |-> r.res.user,
                             name |-> ConnectionProfiles[c].GuestName,
                             tornDown |-> FALSE])
                ELSE graceTimers
    /\ live' = live \ {c}
    /\ UNCHANGED <<now, pc, loc>>

\* The entries ActiveSessions.FirstOrDefault may return for userId.
FirstSessionOf(h, userId) ==
    IF SessionsOf(h, userId) = {} THEN {NoSession} ELSE SessionsOf(h, userId)

\* The oldest Task.Delay elapses (all delays are 20 s, so they elapse in the
\* order they were started).  tornDown is history: a younger timer of the
\* same identity records that an older one tore the identity's session down.
GraceExpire ==
    /\ graceTimers # <<>>
    /\ LET tm == Head(graceTimers)
       IN \E session \in FirstSessionOf(Hub, tm.userId) :
            LET r == OnDisconnectedAfterDelay(Hub, tm.userId, tm.name, session)
            IN /\ Install(r)
               /\ graceTimers' =
                    [i \in 1..(Len(graceTimers) - 1) |->
                        LET t2 == graceTimers[i + 1]
                        IN IF r.res.hit /\ t2.userId = tm.userId
                           THEN [t2 EXCEPT !.tornDown = TRUE] ELSE t2]
    /\ UNCHANGED <<live, now, pc, loc>>

\* Any live connection may name any identity.
Remove(userId) ==
    /\ live # {}
    /\ Install(RemoveUser(Hub, userId))
    /\ UNCHANGED <<live, now, graceTimers, pc, loc>>

\* Every hub method runs to its end before the next one starts, except that
\* OnDisconnectedAsync waits for the grace window in between.
Next_ ==
    \/ \E c \in Conns : \E token \in {Owner(c), ""} : Connect(c, token)
    \/ \E c \in Conns, n \in GuestNames : Register(c, n)
    \/ \E c \in Conns : Join(c)
    \/ \E c \in Conns, s \in DOMAIN ActiveSessions \cup {OldSessionId} : Skip(c, s)
    \/ \E c \in Conns : Next(c)
    \/ \E c \in Conns : Disconnect(c)
    \/ GraceExpire
    \/ \E u \in Users : Remove(u)

Spec == Init /\ [][Next_]_vars

\* The connection registry and the grace timer alone.
InitGrace == Fresh /\ budget = MaxGraceSteps

NextGrace ==
    \/ \E c \in Conns : Connect(c, Owner(c))
    \/ \E c \in Conns : Join(c)
    \/ \E c \in Conns : Disconnect(c)
    \/ GraceExpire

SpecGrace == InitGrace /\ [][NextGrace]_vars

\* ------------------------------------------------------------- relaying
\* The session ids a client may name: those in the table and an old one.
NamedSessions == DOMAIN ActiveSessions \cup {OldSessionId}

Message(c, sessionId, message) ==
    /\ c \in live
    /\ \E pick \in Resolvers(Hub) : Install(SendMessage(Hub, c, sessionId, message, pick))
    /\ UNCHANGED <<live, now, graceTimers, pc, loc>>

Voice(c, sessionId, base64Audio) ==
    /\ c \in live
    /\ \E pick \in Resolvers(Hub) :
          Install(SendVoiceNote(Hub, c, sessionId, base64Audio, pick))
    /\ UNCHANGED <<live, now, graceTimers, pc, loc>>

Image(c, sessionId, fromUser, base64Image) ==
    /\ c \in live
    /\ \E pick \in Resolvers(Hub) :
          Install(SendImage(Hub, sessionId, fromUser, base64Image, pick))
    /\ UNCHANGED <<live, now, graceTimers, pc, loc>>

Signal(c, sessionId, fromUser, signalType) ==
    /\ c \in live
    /\ Install(SendSignal(Hub, sessionId, fromUser, signalType, "sdp"))
    /\ UNCHANGED <<live, now, graceTimers, pc, loc>>

Typing(c, fromUser, toUser) ==
    /\ c \in live
    /\ \E pick \in Resolvers(Hub) : Install(SendTyping(Hub, fromUser, toUser, pick))
    /\ UNCHANGED <<live, now, graceTimers, pc, loc>>

TypingStopped(c, fromUser, toUser) ==
    /\ c \in live
    /\ Install(SendTypingStopped(Hub, fromUser, toUser))
    /\ UNCHANGED <<live, now, graceTimers, pc, loc>>

Pinged(c) ==
    /\ c \in live
    /\ Install(Ping(Hub, c))
    /\ UNCHANGED <<live, now, graceTimers, pc, loc>>

CallStart(c, sessionId, fromUser, toUser) ==
    /\ c \in live
    /\ \E pick \in Resolvers(Hub) :
          Install(StartCall(Hub, c, sessionId, fromUser, toUser, pick))
    /\ UNCHANGED <<live, now, graceTimers, pc, loc>>

CallAccept(c, sessionId, fromUser, toUser) ==
    /\ c \in live
    /\ Install(AcceptCall(Hub, sessionId, fromUser, toUser))
    /\ UNCHANGED <<live, now, graceTimers, pc, loc>>

CallReject(c, sessionId, fromUser, toUser) ==
    /\ c \in live
    /\ Install(RejectCall(Hub, sessionId, fromUser, toUser))
    /\ UNCHANGED <<live, now, graceTimers, pc, loc>>

CallEnd(c, sessionId, fromUser, toUser) ==
    /\ c \in live
    /\ Install(EndCall(Hub, sessionId, fromUser, toUser))
    /\ UNCHANGED <<live, now, graceTimers, pc, loc>>

SessionJoin(c, sessionId, userId) ==
    /\ c \in live
    /\ Install(JoinSession(Hub, c, sessionId, userId))
    /\ UNCHANGED <<live, now, graceTimers, pc, loc>>

InitRelay == Fresh /\ budget = MaxRelaySteps

\* Pairing, detaching and the relays of messages and call events.
NextRelay ==
    \/ \E c \in Conns : Connect(c, Owner(c))
    \/ \E c \in Conns, n \in GuestNames : Register(c, n)
    \/ \E c \in Conns : Join(c)
    \/ \E c \in Conns, s \in NamedSessions : Skip(c, s)
    \/ \E c \in Conns : Disconnect(c)
    \/ GraceExpire
    \/ \E c \in Conns, s \in NamedSessions, m \in Messages : Message(c, s, m)
    \/ \E c \in Conns, s \in NamedSessions, a \in Audios : Voice(c, s, a)
    \/ \E c \in Conns, s \in NamedSessions, u \in Users, i \in Images : Image(c, s, u, i)
    \/ \E c \in Conns, s \in NamedSessions, u \in Users, y \in SignalTypes :
          Signal(c, s, u, y)
    \/ \E c \in Conns, u \in Users, v \in Users : Typing(c, u, v)
    \/ \E c \in Conns, u \in Users, v \in Users : TypingStopped(c, u, v)
    \/ \E c \in Conns : Pinged(c)
    \/ \E c \in Conns, s \in NamedSessions, u \in Users, v \in Users :
          CallStart(c, s, u, v)
    \/ \E c \in Conns, s \in NamedSessions, u \in Users, v \in Users :
          CallAccept(c, s, u, v)
    \/ \E c \in Conns, s \in NamedSessions, u \in Users, v \in Users :
          CallReject(c, s, u, v)
    \/ \E c \in Conns, s \in NamedSessions, u \in Users, v \in Users :
          CallEnd(c, s, u, v)
    \/ \E c \in Conns, s \in NamedSessions, u \in Users : SessionJoin(c, s, u)

SpecRelay == InitRelay /\ [][NextRelay]_vars

\* ------------------------------------------------------------- registry
\* The part of OnDisconnectedAsync after Task.Delay, one step per access to
\* UserConnectionMap: the re-check of lines 349-355 and, when it finds no
\* connection, the full disconnect of lines 357-384.  Other handlers run in
\* between.  pc of the departed connection is the position of its handler.
GraceRecheck ==
    /\ graceTimers # <<>>
    /\ LET tm == Head(graceTimers)
       IN /\ pc[tm.conn] = "idle"
          /\ IF HasConnections(Hub, tm.userId)
             THEN /\ Install(StillConnected(Hub, tm.userId))
                  /\ graceTimers' = Tail(graceTimers)
                  /\ pc' = pc
             ELSE /\ Install(Hub)
                  /\ graceTimers' = graceTimers
                  /\ pc' = [pc EXCEPT ![tm.conn] = "fullDisconnect"]
    /\ UNCHANGED <<live, now, loc>>

GraceFullDisconnect ==
    /\ graceTimers # <<>>
    /\ LET tm == Head(graceTimers)
       IN /\ pc[tm.conn] = "fullDisconnect"
          /\ \E session \in FirstSessionOf(Hub, tm.userId) :
                Install(FullDisconnect(Hub, tm.userId, tm.name, session))
          /\ graceTimers' = Tail(graceTimers)
          /\ pc' = [pc EXCEPT ![tm.conn] = "idle"]
    /\ UNCHANGED <<live, now, loc>>

MaxRegSteps == 6

InitReg == Fresh /\ budget = MaxRegSteps

\* Attach, detach, the two steps of the grace expiry, RemoveUser and
\* JoinSession, in any order.
NextReg ==
    \/ \E c \in Conns : Connect(c, Owner(c))
    \/ \E c \in Conns : Disconnect(c)
    \/ GraceRecheck
    \/ GraceFullDisconnect
    \/ \E u \in Users : Remove(u)
    \/ \E c \in Conns, u \in Users : SessionJoin(c, OldSessionId, u)

SpecReg == InitReg /\ [][NextReg]_vars

\* ------------------------------------------------- interleaved handlers
\* Hub methods of different connections run concurrently.  JoinChat is split
\* after TryDequeueWaiting, and its EnqueueWaiting between its two steps; a
\* connection runs one hub method at a time.

\* A state the hub reaches from construction: the four connections attached,
\* alice (a1) waiting and bob (b1) joining at time 0.
EmptyHub == [ucm |-> <<>>, prof |-> <<>>, wq |-> <<>>, wi |-> {}, idle |-> {},
             sess |-> <<>>, keys |-> <<>>, grp |-> {}, out |-> <<>>, res |-> NoRes]
NoNames == [u \in Users |-> Null]
PairedHub ==
    LET h1 == OnConnectedAsync(EmptyHub, "a1", "alice")
        h2 == OnConnectedAsync(h1, "a2", "alice")
        h3 == OnConnectedAsync(h2, "b1", "bob")
        h4 == OnConnectedAsync(h3, "c1", "carol")
        h5 == JoinChat(h4, "a1", 0, "k1", NoNames)
    IN JoinChat(h5, "b1", 0, "k1", NoNames)

IsHub(h) ==
    /\ UserConnectionMap = h.ucm
    /\ ConnectionProfiles = h.prof
    /\ WaitingQueue = h.wq
    /\ WaitingIndex = h.wi
    /\ IdleIndex = h.idle
    /\ ActiveSessions = h.sess
    /\ SessionKeys = h.keys
    /\ Groups = h.grp

InitConc ==
    /\ IsHub(PairedHub)
    /\ live = Conns
    /\ now = 0
    /\ graceTimers = <<>>
    /\ pc = [c \in Conns |-> "idle"]
    /\ loc = [c \in Conns |-> NoLoc]
    /\ budget = MaxConcSteps
    /\ joined = PairedHub.grp
    /\ NoClients

\* JoinChat up to the return of TryDequeueWaiting: lines 74-86.
JoinDequeue(c) ==
    /\ c \in live
    /\ pc[c] \in {"idle", "requeued"}
    /\ IF c \notin DOMAIN ConnectionProfiles
       THEN /\ Install(Hub)
            /\ pc' = [pc EXCEPT ![c] = "idle"]
            /\ UNCHANGED loc
       ELSE LET d == TryDequeueWaiting(Hub)
            IN /\ Install(d.h)
               /\ pc' = [pc EXCEPT ![c] = "join"]
               /\ loc' = [loc EXCEPT ![c] = [userId |-> ConnectionProfiles[c].UserId,
                                             ok |-> d.ok, matched |-> d.userId,
                                             remaining |-> <<>>]]
    /\ UNCHANGED <<live, now, graceTimers>>

\* The rest of JoinChat, run without another handler in between.
JoinFinish(c) ==
    /\ pc[c] = "join"
    /\ \E t \in now..MaxClock, key \in Keys, pick \in Resolvers(Hub) :
          /\ Install(JoinChatMatch(Hub, c, loc[c].userId, loc[c].ok,
                                   loc[c].matched, t, key, pick))
          /\ now' = t
    /\ pc' = [pc EXCEPT ![c] = "idle"]
    /\ loc' = [loc EXCEPT ![c] = NoLoc]
    /\ UNCHANGED <<live, graceTimers>>

\* An enqueueing branch of JoinChat, up to line 567 of EnqueueWaiting.
JoinIdleRemove(c) ==
    /\ pc[c] = "join"
    /\ JoinKeepsWaiting(Hub, loc[c].userId, loc[c].ok, loc[c].matched)
    /\ Install(EnqueueIdleRemove(Hub, loc[c].userId))
    /\ pc' = [pc EXCEPT ![c] = "enqueue"]
    /\ UNCHANGED <<live, now, graceTimers, loc>>

\* Lines 568-569 of EnqueueWaiting and the Waiting event: the branch ends.
JoinTryAdd(c) ==
    /\ pc[c] = "enqueue"
    /\ Install(EnqueueTryAdd(Hub, loc[c].userId))
    /\ pc' = [pc EXCEPT ![c] = "idle"]
    /\ loc' = [loc EXCEPT ![c] = NoLoc]
    /\ UNCHANGED <<live, now, graceTimers>>

\* NextChat up to its call of JoinChat.
NextBegin(c) ==
    /\ c \in live
    /\ pc[c] = "idle"
    /\ c \in DOMAIN ConnectionProfiles
    /\ Install(NextChatRequeue(Hub, ConnectionProfiles[c].UserId))
    /\ pc' = [pc EXCEPT ![c] = "requeued"]
    /\ UNCHANGED <<live, now, graceTimers, loc>>

NextConc ==
    \/ \E c \in Conns : JoinDequeue(c)
    \/ \E c \in Conns : JoinFinish(c)
    \/ \E c \in Conns : JoinIdleRemove(c)
    \/ \E c \in Conns : JoinTryAdd(c)
    \/ \E c \in Conns : NextBegin(c)
    \/ \E c \in Conns, s \in DOMAIN ActiveSessions \cup {OldSessionId} : Skip(c, s)

SpecConc == InitConc /\ [][NextConc]_vars

\* ---------------------------------------------------------- queue rebuild
\* RemoveUser called on connection c, one step per access to WaitingQueue by
\* RebuildWaitingQueueExcluding; the steps of other handlers run in between.
RemoveBegin(c, userId) ==
    /\ c \in live
    /\ pc[c] = "idle"
    /\ IF userId \notin DOMAIN UserConnectionMap
       THEN /\ Install(Hub)
            /\ UNCHANGED <<pc, loc>>
       ELSE LET h == RemoveUserBegin(Hub, userId)
            IN /\ Install(h)
               /\ pc' = [pc EXCEPT ![c] = "drain"]
               /\ loc' = [loc EXCEPT ![c] =
                             [NoLoc EXCEPT !.userId = userId,
                                           !.remaining = RebuildSnapshot(h, userId)]]
    /\ UNCHANGED <<live, now, graceTimers>>

RemoveDrain(c) ==
    /\ pc[c] = "drain"
    /\ Install(RebuildDrain(Hub))
    /\ pc' = [pc EXCEPT ![c] = "reenqueue"]
    /\ UNCHANGED <<live, now, graceTimers, loc>>

RemoveFinish(c) ==
    /\ pc[c] = "reenqueue"
    /\ Install(RemoveUserFinish(RebuildReenqueue(Hub, loc[c].remaining), loc[c].userId))
    /\ pc' = [pc EXCEPT ![c] = "idle"]
    /\ loc' = [loc EXCEPT ![c] = NoLoc]
    /\ UNCHANGED <<live, now, graceTimers>>

MaxQueueSteps == 6

InitQueue ==
    /\ IsHub(PairedHub)
    /\ live = Conns
    /\ now = 0
    /\ graceTimers = <<>>
    /\ pc = [c \in Conns |-> "idle"]
    /\ loc = [c \in Conns |-> NoLoc]
    /\ budget = MaxQueueSteps
    /\ joined = PairedHub.grp
    /\ NoClients

\* JoinChat and RemoveUser, interleaved at their accesses to the queue.
NextQueue ==
    \/ \E c \in Conns : JoinDequeue(c)
    \/ \E c \in Conns : JoinFinish(c)
    \/ \E c \in Conns : JoinIdleRemove(c)
    \/ \E c \in Conns : JoinTryAdd(c)
    \/ \E c \in Conns, u \in Users : RemoveBegin(c, u)
    \/ \E c \in Conns : RemoveDrain(c)
    \/ \E c \in Conns : RemoveFinish(c)

SpecQueue == InitQueue /\ [][NextQueue]_vars

\* ------------------------------------------------------------ web client
\* The attached connections with a profile, and the identity of one.
Profiled == live \cap DOMAIN ConnectionProfiles
UserOf(c) == ConnectionProfiles[c].UserId

\* CallService.registerSignalRHandlers (call.service.ts 50-116) and
\* RandomChatComponent.initCallHandlers: callState after an event.
OnCallEvent(state, event) ==
    CASE event = "IncomingCall" -> "incoming"
      [] event = "CallAccepted" -> "in-call"
      [] event \in {"CallRejected", "CallEnded"} -> "idle"
      [] OTHER -> state

\* RandomChatSignalRService handlers (call.service.ts 900-1016) and the
\* subscriptions of RandomChatComponent (131-196): currentState after an event.
OnChatEvent(state, event) ==
    CASE event = "SessionUpdate" -> "chatting"
      [] event = "Waiting" -> "searching"
      [] event \in {"PartnerSkipped", "YouSkipped"} -> "ended"
      [] OTHER -> state

\* The client of c handles the oldest event sent to it.
Receive(c) ==
    /\ c \in listening \cap live
    /\ inbox[c] # <<>>
    /\ budget > 0
    /\ budget' = budget - 1
    /\ callState' = [callState EXCEPT ![c] = OnCallEvent(@, Head(inbox[c]))]
    /\ currentState' = [currentState EXCEPT ![c] = OnChatEvent(@, Head(inbox[c]))]
    /\ inbox' = [inbox EXCEPT ![c] = Tail(@)]
    /\ UNCHANGED <<hubVars, live, now, graceTimers, pc, loc, joined, listening, ended>>

\* The clients that show a session: those of a participant, chatting.
InSession(c) ==
    /\ c \in listening \cap Profiled
    /\ SessionsOf(Hub, UserOf(c)) # {}

\* toggleCall with callState idle: CallService.startCall.
ClientStartCall(c) ==
    /\ InSession(c)
    /\ callState[c] = "idle"
    /\ \E s \in SessionsOf(Hub, UserOf(c)), pick \in Resolvers(Hub) :
          InstallHub(StartCall(Hub, c, s, UserOf(c),
                               OtherUser(ActiveSessions[s], UserOf(c)), pick))
    /\ callState' = [callState EXCEPT ![c] = "calling"]
    /\ ended' = FALSE
    /\ UNCHANGED <<live, now, graceTimers, pc, loc, currentState>>

\* toggleCall with another callState: CallService.endCall.
ClientEndCall(c) ==
    /\ InSession(c)
    /\ callState[c] # "idle"
    /\ \E s \in SessionsOf(Hub, UserOf(c)) :
          InstallHub(EndCall(Hub, s, UserOf(c), OtherUser(ActiveSessions[s], UserOf(c))))
    /\ callState' = [callState EXCEPT ![c] = "idle"]
    /\ ended' = TRUE
    /\ UNCHANGED <<live, now, graceTimers, pc, loc, currentState>>

\* RandomChatComponent.acceptCall on an announced call: CallService.acceptCall.
ClientAcceptCall(c) ==
    /\ InSession(c)
    /\ callState[c] = "incoming"
    /\ \E s \in SessionsOf(Hub, UserOf(c)) :
          InstallHub(AcceptCall(Hub, s, UserOf(c),
                                OtherUser(ActiveSessions[s], UserOf(c))))
    /\ UNCHANGED <<live, now, graceTimers, pc, loc, callState, currentState, ended>>

\* RandomChatComponent.rejectCall on an announced call.
ClientRejectCall(c) ==
    /\ InSession(c)
    /\ callState[c] = "incoming"
    /\ \E s \in SessionsOf(Hub, UserOf(c)) :
          InstallHub(RejectCall(Hub, s, UserOf(c),
                                OtherUser(ActiveSessions[s], UserOf(c))))
    /\ callState' = [callState EXCEPT ![c] = "idle"]
    /\ ended' = TRUE
    /\ UNCHANGED <<live, now, graceTimers, pc, loc, currentState>>

\* RandomChatComponent.skipChat.
ClientSkip(c) ==
    /\ InSession(c)
    /\ currentState[c] = "chatting"
    /\ \E s \in SessionsOf(Hub, UserOf(c)), pick \in Resolvers(Hub) :
          InstallHub(SkipChat(Hub, c, s, pick))
    /\ currentState' = [currentState EXCEPT ![c] = "ended"]
    /\ UNCHANGED <<live, now, graceTimers, pc, loc, callState, ended>>

MaxClientSteps == 7

\* alice (a1, a2) and bob (b1) are paired and their clients have handled
\* SessionUpdate; the client of c1 (carol) has not asked for a partner.
InitClient ==
    /\ IsHub(PairedHub)
    /\ live = Conns
    /\ now = 0
    /\ graceTimers = <<>>
    /\ pc = [c \in Conns |-> "idle"]
    /\ loc = [c \in Conns |-> NoLoc]
    /\ budget = MaxClientSteps
    /\ joined = PairedHub.grp
    /\ listening = Conns
    /\ inbox = [c \in Conns |-> <<>>]
    /\ callState = [c \in Conns |-> "idle"]
    /\ currentState = [c \in Conns |->
                          IF SessionsOf(PairedHub, PairedHub.prof[c].UserId) # {}
                          THEN "chatting" ELSE "searching"]
    /\ ended = FALSE

\* The clients' calls and skips, the teardowns of the hub, and the clients
\* handling the events sent to them.
NextClient ==
    \/ \E c \in Conns : ClientStartCall(c)
    \/ \E c \in Conns : ClientAcceptCall(c)
    \/ \E c \in Conns : ClientRejectCall(c)
    \/ \E c \in Conns : ClientEndCall(c)
    \/ \E c \in Conns : ClientSkip(c)
    \/ \E c \in Conns : Disconnect(c)
    \/ GraceExpire
    \/ \E u \in Users : Remove(u)
    \/ \E c \in Conns : Receive(c)

SpecClient == InitClient /\ [][NextClient]_vars

\* ----------------------------------------------------------------- claims
Occurrences(q, u) == Cardinality({i \in 1..Len(q) : q[i] = u})

\* C1: in every reachable state each identity is a participant of at most
\* one entry of ActiveSessions.
C1_AtMostOneSession ==
    \A u \in Users : Cardinality(SessionsOf(Hub, u)) <= 1

\* C2: every session join/next creates has two distinct participants, also
\* when the only waiting entry is the caller's own identity.
C2_NoSelfMatch ==
    \A s \in DOMAIN ActiveSessions : ActiveSessions[s].user1 # ActiveSessions[s].user2

\* C2's case: the caller's identity is the only waiting entry (queued from
\* another tab), and the join creates no session and leaves it waiting.
C2_Witness ==
    \E c \in Profiled :
        /\ WaitingQueue = <<UserOf(c)>>
        /\ UserOf(c) \in WaitingIndex
        /\ Cardinality(UserConnectionMap[UserOf(c)]) = 2
        /\ \A key \in Keys, pick \in Resolvers(Hub) :
              LET r == JoinChat(Hub, c, now, key, pick)
              IN /\ r.sess = ActiveSessions
                 /\ r.wq = <<UserOf(c)>>
                 /\ r.res.matched = UserOf(c)
                 /\ ~r.res.paired

\* C4: the WaitingQueue holds no identity more than once.
C4_NoDuplicates ==
    \A u \in Users : Occurrences(WaitingQueue, u) <= 1

\* A valid waiter: in the presence set and the FIFO, with a live connection.
ValidWaiter(u) ==
    /\ u \in WaitingIndex
    /\ u \in Range(WaitingQueue)
    /\ HasConnections(Hub, u)

\* An entry is appended only when its identity enters the presence set, so
\* the last entry of a waiter is the enqueue of its present wait.
LastEntry(u) == CHOOSE i \in 1..Len(WaitingQueue) :
                    /\ WaitingQueue[i] = u
                    /\ \A j \in (i + 1)..Len(WaitingQueue) : WaitingQueue[j] # u
EnqueuedBefore(a, b) == LastEntry(a) < LastEntry(b)

\* C3: with A and B valid waiters and A enqueued before B, a join by a third
\* identity C that pairs C pairs it with A, not with B.
C3_FifoAmongValid ==
    \A c \in Profiled : \A a \in Users, b \in Users :
        ( /\ pc[c] = "idle"
          /\ a # b /\ UserOf(c) \notin {a, b}
          /\ ValidWaiter(a) /\ ValidWaiter(b)
          /\ EnqueuedBefore(a, b) )
        => \A key \in Keys, pick \in Resolvers(Hub) :
              LET r == JoinChat(Hub, c, now, key, pick)
              IN r.res.paired => r.res.matched = a

\* C5: no identity is in both the waiting presence set and the idle set.
C5_WaitingIdleDisjoint == WaitingIndex \cap IdleIndex = {}

\* C6: when an identity reattaches before the grace window of its last
\* detach has elapsed (the timer of that detach is still pending), the grace
\* handler has not torn a session of the identity down since that detach.
C6_ReattachKeepsSession ==
    \A i \in 1..Len(graceTimers) :
        HasConnections(Hub, graceTimers[i].userId) => ~graceTimers[i].tornDown

\* C7: when the grace window of an identity's last detach elapses with no
\* connection reattached, the handler leaves the identity out of the
\* registry, the waiting pool and the idle set, leaves no session holding it,
\* and has sent PartnerDisconnected to every connection of the partner and
\* put the partner in the idle set.
C7_FullTeardown ==
    graceTimers # <<>> /\ ~HasConnections(Hub, Head(graceTimers).userId) =>
        LET u == Head(graceTimers).userId
        IN \A session \in FirstSessionOf(Hub, u) :
              LET r == OnDisconnectedAfterDelay(Hub, u, Head(graceTimers).name, session)
              IN /\ u \notin DOMAIN r.ucm
                 /\ u \notin r.wi /\ u \notin Range(r.wq) /\ u \notin r.idle
                 /\ SessionsOf(r, u) = {}
                 /\ \A s \in SessionsOf(Hub, u) :
                       LET partner == OtherUser(ActiveSessions[s], u)
                       IN /\ partner \in r.idle
                          /\ HasConnections(Hub, partner) =>
                                \A pcn \in UserConnectionMap[partner] :
                                   \E k \in 1..Len(r.out) :
                                      /\ r.out[k].to = pcn
                                      /\ r.out[k].method = "PartnerDisconnected"

\* The events of a handler's output sent to connection c with the method.
SentTo(r, c, method) ==
    {k \in 1..Len(r.out) : r.out[k].to = c /\ r.out[k].method = method}

\* C8: when a join by B pairs with the waiting A, every connection of A and
\* of B is sent exactly one SessionUpdate and nobody else is sent one; all of
\* them carry the id and the key of the session created, and the me/partner
\* fields of B's are the partner/me fields of A's.
C8_Post(r) ==
    LET b == r.res.user
        a == r.res.matched
        ups == {k \in 1..Len(r.out) : r.out[k].method = "SessionUpdate"}
    IN /\ r.res.sid \in DOMAIN r.sess
       /\ \A u \in {a, b} : \A cn \in UserConnectionMap[u] :
             Cardinality(SentTo(r, cn, "SessionUpdate")) = 1
       /\ \A k \in ups : /\ r.out[k].to \in UserConnectionMap[a] \cup UserConnectionMap[b]
                         /\ r.out[k].payload.sessionId = r.res.sid
                         /\ r.out[k].payload.key = r.keys[r.res.sid]
       /\ \A k \in ups, l \in ups :
             (r.out[k].to \in UserConnectionMap[b] /\ r.out[l].to \in UserConnectionMap[a])
             => /\ r.out[k].payload.me = r.out[l].payload.partner
                /\ r.out[k].payload.partner = r.out[l].payload.me
                /\ r.out[k].payload.me.id = b
                /\ r.out[l].payload.me.id = a

C8_SymmetricSessionUpdate ==
    \A c \in Profiled : \A key \in Keys, pick \in Resolvers(Hub) :
        LET r == JoinChat(Hub, c, now, key, pick)
        IN r.res.paired => C8_Post(r)

C8_Witness ==
    \E c \in Profiled : \E key \in Keys, pick \in Resolvers(Hub) :
        LET r == JoinChat(Hub, c, now, key, pick)
        IN /\ r.res.paired
           /\ Cardinality(UserConnectionMap[UserOf(c)]) = 2
           /\ pick[r.res.matched] # Null /\ pick[UserOf(c)] = Null
           /\ C8_Post(r)

\* C9: when a participant skips a session it belongs to, the session leaves
\* the session table, every connection of the partner is sent one
\* PartnerSkipped, every connection of the skipper is sent one YouSkipped, and
\* afterwards both identities are in the idle set and neither is in the
\* waiting presence set.
C9_Post(r, sessionId) ==
    LET u == r.res.user
        o == r.res.other
    IN /\ r.res.hit
       /\ sessionId \notin DOMAIN r.sess
       /\ o = OtherUser(ActiveSessions[sessionId], u)
       /\ HasConnections(Hub, o) =>
             \A cn \in UserConnectionMap[o] :
                Cardinality(SentTo(r, cn, "PartnerSkipped")) = 1
       /\ \A cn \in UserConnectionMap[u] : Cardinality(SentTo(r, cn, "YouSkipped")) = 1
       /\ {u, o} \subseteq r.idle
       /\ {u, o} \cap r.wi = {}

C9_SkipByParticipant ==
    \A c \in Profiled : \A sessionId \in SessionsOf(Hub, UserOf(c)) :
        \A pick \in Resolvers(Hub) : C9_Post(SkipChat(Hub, c, sessionId, pick), sessionId)

C9_Witness ==
    \E c \in Profiled : \E sessionId \in SessionsOf(Hub, UserOf(c)) :
        \E pick \in Resolvers(Hub) :
            /\ HasConnections(Hub, OtherUser(ActiveSessions[sessionId], UserOf(c)))
            /\ OtherUser(ActiveSessions[sessionId], UserOf(c)) \in WaitingIndex
            /\ C9_Post(SkipChat(Hub, c, sessionId, pick), sessionId)

\* C10: a skip naming a session id that is not in the session table changes
\* none of the registry, the profiles, the waiting pool, the idle set, the
\* session table, the session keys and the routing groups, and sends nothing.
C10_Post(r) ==
    /\ r.ucm = UserConnectionMap /\ r.prof = ConnectionProfiles
    /\ r.wq = WaitingQueue /\ r.wi = WaitingIndex /\ r.idle = IdleIndex
    /\ r.sess = ActiveSessions /\ r.keys = SessionKeys /\ r.grp = Groups
    /\ r.out = <<>>

C10_SkipUnknownIsNoOp ==
    \A c \in Conns : \A sessionId \in SessionIds \ DOMAIN ActiveSessions :
        \A pick \in Resolvers(Hub) : C10_Post(SkipChat(Hub, c, sessionId, pick))

C10_Witness ==
    \E c \in Profiled : \E pick \in Resolvers(Hub) :
        /\ OldSessionId \notin DOMAIN ActiveSessions
        /\ OldSessionId.a \in IdleIndex
        /\ UserOf(c) = OldSessionId.b /\ UserOf(c) \in WaitingIndex
        /\ C10_Post(SkipChat(Hub, c, OldSessionId, pick))

\* The attached connections registered under identity u.
LiveConnsOf(u) == {c \in Profiled : UserOf(c) = u}

\* The display names the connections of u have registered.
NamesOf(u) == {ConnectionProfiles[c].GuestName : c \in LiveConnsOf(u)} \ {""}

\* C11: when a participant sends a text on a session it belongs to, every
\* connection of the partner that was attached when the session was created
\* and has stayed attached receives exactly one ReceiveMessage, whose text is
\* the text sent and whose from is a display name the sender registered
\* ("Unknown" when it registered none).
C11_Post(r, c, sessionId, message) ==
    LET o == OtherUser(ActiveSessions[sessionId], UserOf(c))
    IN \A cn \in LiveConnsOf(o) :
          <<cn, sessionId>> \in joined =>
             /\ Cardinality(SentTo(r, cn, "ReceiveMessage")) = 1
             /\ \A k \in SentTo(r, cn, "ReceiveMessage") :
                   /\ r.out[k].payload.text = message
                   /\ r.out[k].payload.from \in
                         (IF NamesOf(UserOf(c)) = {} THEN {"Unknown"}
                          ELSE NamesOf(UserOf(c)))

C11_MessageReachesPartner ==
    \A c \in Profiled : \A sessionId \in SessionsOf(Hub, UserOf(c)) :
        \A message \in Messages, pick \in Resolvers(Hub) :
            C11_Post(SendMessage(Hub, c, sessionId, message, pick), c, sessionId, message)

C11_Witness ==
    \E c \in Profiled : \E sessionId \in SessionsOf(Hub, UserOf(c)) :
        \E message \in Messages, pick \in Resolvers(Hub) :
            /\ NamesOf(UserOf(c)) # {}
            /\ \E cn \in LiveConnsOf(OtherUser(ActiveSessions[sessionId], UserOf(c))) :
                  <<cn, sessionId>> \in joined
            /\ C11_Post(SendMessage(Hub, c, sessionId, message, pick),
                        c, sessionId, message)

\* Every attached connection of identity u is sent the event.
ReachesAll(r, u, method) == \A cn \in LiveConnsOf(u) : SentTo(r, cn, method) # {}

\* C12: a SessionUpdate or a call event (OutgoingCallStarted, IncomingCall,
\* CallAccepted, CallRejected, CallEnded) addressed to an identity is sent to
\* every attached connection of that identity.
C12_CallFanOut(r, fromMethod, toMethod, fromUser, toUser) ==
    ReachesAll(r, fromUser, fromMethod) /\ ReachesAll(r, toUser, toMethod)

C12_FanOut ==
    /\ \A c \in Profiled : \A key \in Keys, pick \in Resolvers(Hub) :
          LET r == JoinChat(Hub, c, now, key, pick)
          IN r.res.paired => /\ ReachesAll(r, r.res.user, "SessionUpdate")
                             /\ ReachesAll(r, r.res.matched, "SessionUpdate")
    /\ \A c \in live : \A s \in NamedSessions, u \in Users, v \in Users :
          /\ \A pick \in Resolvers(Hub) :
                C12_CallFanOut(StartCall(Hub, c, s, u, v, pick),
                               "OutgoingCallStarted", "IncomingCall", u, v)
          /\ C12_CallFanOut(AcceptCall(Hub, s, u, v), "CallAccepted", "CallAccepted", u, v)
          /\ C12_CallFanOut(RejectCall(Hub, s, u, v), "CallRejected", "CallRejected", u, v)
          /\ C12_CallFanOut(EndCall(Hub, s, u, v), "CallEnded", "CallEnded", u, v)

C12_Witness ==
    \E c \in live : \E s \in DOMAIN ActiveSessions, pick \in Resolvers(Hub) :
        LET u == ActiveSessions[s].user1
            v == ActiveSessions[s].user2
            r == StartCall(Hub, c, s, u, v, pick)
        IN /\ UserOf(c) = u
           /\ Cardinality(LiveConnsOf(v)) = 2
           /\ \A cn \in LiveConnsOf(v) : Cardinality(SentTo(r, cn, "IncomingCall")) = 1
           /\ ReachesAll(r, u, "OutgoingCallStarted")

\* C13: when a participant relays a text on a session, every attached
\* connection of both participants receives it, the connections attached after
\* the session was created included.
C13_MessageFanOut ==
    \A c \in Profiled : \A sessionId \in SessionsOf(Hub, UserOf(c)) :
        \A message \in Messages, pick \in Resolvers(Hub) :
            LET r == SendMessage(Hub, c, sessionId, message, pick)
            IN /\ ReachesAll(r, ActiveSessions[sessionId].user1, "ReceiveMessage")
               /\ ReachesAll(r, ActiveSessions[sessionId].user2, "ReceiveMessage")

\* C14: a text sent on a session id that is not in the session table, or by
\* an identity that is not a participant of the session, produces one Error
\* event, sent to the calling connection, and nothing else: no ReceiveMessage
\* reaches any connection.
C14_Rejected(c, sessionId) ==
    \/ sessionId \notin DOMAIN ActiveSessions
    \/ ~IsParticipant(ActiveSessions[sessionId], UserOf(c))

C14_Post(r, c) ==
    /\ Len(r.out) = 1
    /\ r.out[1].to = c
    /\ r.out[1].method = "Error"

C14_InvalidSendIsErrorToCaller ==
    \A c \in Profiled : \A sessionId \in SessionIds :
        C14_Rejected(c, sessionId) =>
            \A message \in Messages, pick \in Resolvers(Hub) :
                C14_Post(SendMessage(Hub, c, sessionId, message, pick), c)

C14_Witness ==
    \E c \in Profiled : \E sessionId \in DOMAIN ActiveSessions :
        \E message \in Messages, pick \in Resolvers(Hub) :
            /\ ~IsParticipant(ActiveSessions[sessionId], UserOf(c))
            /\ \E cn \in live : <<cn, sessionId>> \in Groups
            /\ C14_Post(SendMessage(Hub, c, sessionId, message, pick), c)

\* The events of a handler's output with one of the methods.
Relayed(r, methods) == {k \in 1..Len(r.out) : r.out[k].method \in methods}

\* C15: a voice note or an image sent on a session id that is not in the
\* session table, or by an identity that is not a participant of the session,
\* relays no ReceiveVoiceNote, UploadingImage or ReceiveImage to anybody.
C15_VoiceImageAuthorized ==
    \A c \in Profiled : \A sessionId \in SessionIds :
        C14_Rejected(c, sessionId) =>
            \A pick \in Resolvers(Hub) :
                /\ \A a \in Audios :
                      Relayed(SendVoiceNote(Hub, c, sessionId, a, pick),
                              {"ReceiveVoiceNote"}) = {}
                /\ \A i \in Images :
                      Relayed(SendImage(Hub, sessionId, UserOf(c), i, pick),
                              {"UploadingImage", "ReceiveImage"}) = {}

\* C16: a skip by a connection whose identity is not a participant of the
\* named session changes nothing: the session stays in the table, the waiting
\* pool and the idle set are as before (the caller is not made idle), and no
\* PartnerSkipped or YouSkipped is sent.
C16_SkipByOutsiderIsNoOp ==
    \A c \in Profiled : \A sessionId \in DOMAIN ActiveSessions :
        ~IsParticipant(ActiveSessions[sessionId], UserOf(c)) =>
            \A pick \in Resolvers(Hub) :
                LET r == SkipChat(Hub, c, sessionId, pick)
                IN /\ r.sess = ActiveSessions
                   /\ r.wi = WaitingIndex /\ r.wq = WaitingQueue
                   /\ r.idle = IdleIndex
                   /\ Relayed(r, {"PartnerSkipped", "YouSkipped"}) = {}

\* A candidate a join may be paired with: another identity, with a connection.
ValidCandidate(d, userId) ==
    d.ok /\ d.userId # userId /\ HasConnections(Hub, d.userId)

\* C17: when the entry a join dequeues is stale (its identity has no
\* connection) or is the caller's own identity, and the entry dequeued next
\* would be a valid candidate, the join pairs the caller with that candidate
\* and does not leave the caller in the waiting pool.
C17_SkipsInvalidHeads ==
    \A c \in Profiled :
        LET d1 == TryDequeueWaiting(Hub)
            d2 == TryDequeueWaiting(d1.h)
        IN ( /\ pc[c] = "idle"
             /\ d1.ok /\ ~ValidCandidate(d1, UserOf(c))
             /\ ValidCandidate(d2, UserOf(c)) )
           => \A key \in Keys, pick \in Resolvers(Hub) :
                 LET r == JoinChat(Hub, c, now, key, pick)
                 IN /\ r.res.paired /\ r.res.matched = d2.userId
                    /\ UserOf(c) \notin r.wi

\* C18: when the candidate a join dequeues is stale or is the caller's own
\* identity, no session is created, the caller ends in the waiting pool
\* (presence set and FIFO), and the caller is sent Waiting and no Error.
C18_Post(r, c) ==
    /\ ~r.res.paired
    /\ r.sess = ActiveSessions
    /\ UserOf(c) \in r.wi
    /\ UserOf(c) \in Range(r.wq)
    /\ SentTo(r, c, "Waiting") # {}
    /\ Relayed(r, {"Error"}) = {}

C18_InvalidCandidateRequeues ==
    \A c \in Profiled :
        LET d == TryDequeueWaiting(Hub)
        IN (d.ok /\ ~ValidCandidate(d, UserOf(c))) =>
              \A key \in Keys, pick \in Resolvers(Hub) :
                  C18_Post(JoinChat(Hub, c, now, key, pick), c)

C18_Witness ==
    \E c \in Profiled : \E key \in Keys, pick \in Resolvers(Hub) :
        LET d == TryDequeueWaiting(Hub)
        IN /\ d.ok /\ d.userId # UserOf(c) /\ ~HasConnections(Hub, d.userId)
           /\ C18_Post(JoinChat(Hub, c, now, key, pick), c)

\* C19: when A invokes next while in a session with B (B not waiting for a
\* match), the session is removed, every connection of B is sent a
\* partner-left notification, and B ends in the idle set.
C19_NextTearsDownLikeSkip ==
    \A c \in Profiled : \A sessionId \in SessionsOf(Hub, UserOf(c)) :
        LET b == OtherUser(ActiveSessions[sessionId], UserOf(c))
        IN (b # UserOf(c) /\ b \notin WaitingIndex /\ HasConnections(Hub, b)) =>
              \A key \in Keys, pick \in Resolvers(Hub) :
                  LET r == NextChat(Hub, c, now, key, pick)
                  IN /\ sessionId \notin DOMAIN r.sess
                     /\ \A cn \in UserConnectionMap[b] :
                           \E k \in Relayed(r, {"PartnerSkipped", "PartnerDisconnected"}) :
                               r.out[k].to = cn
                     /\ b \in r.idle

\* C20: a session id that is not in the session table (torn down by skip,
\* next, grace expiry or remove-identity) has no connection left in its routing
\* group, so a voice note, an image or a signal sent on it reaches nobody.
C20_NoGroupAfterTeardown ==
    \A sessionId \in SessionIds \ DOMAIN ActiveSessions :
        /\ \A cn \in Conns : <<cn, sessionId>> \notin Groups
        /\ \A c \in Profiled : \A pick \in Resolvers(Hub) :
              /\ \A a \in Audios :
                    Relayed(SendVoiceNote(Hub, c, sessionId, a, pick),
                            {"ReceiveVoiceNote"}) = {}
              /\ \A i \in Images :
                    Relayed(SendImage(Hub, sessionId, UserOf(c), i, pick),
                            {"UploadingImage", "ReceiveImage"}) = {}
              /\ \A y \in SignalTypes :
                    Relayed(SendSignal(Hub, sessionId, UserOf(c), y, "sdp"),
                            {"ReceiveSignal"}) = {}

\* The survivor b of a teardown is left out of the waiting pool and is in no
\* session the teardown created.
NotRequeued(r, b) ==
    /\ b \notin r.wi
    /\ \A s \in DOMAIN r.sess \ DOMAIN ActiveSessions : ~IsParticipant(r.sess[s], b)

\* C21: after a session is torn down by skip, next, grace expiry or
\* remove-identity, the participant that did not start the teardown is not in
\* the waiting pool and has not been paired into a new session.
C21_NoAutoRequeue ==
    /\ \A c \in Profiled : \A sessionId \in SessionsOf(Hub, UserOf(c)) :
          LET b == OtherUser(ActiveSessions[sessionId], UserOf(c))
          IN \A key \in Keys, pick \in Resolvers(Hub) :
                /\ NotRequeued(SkipChat(Hub, c, sessionId, pick), b)
                /\ NotRequeued(NextChat(Hub, c, now, key, pick), b)
    /\ \A u \in Users : \A sessionId \in SessionsOf(Hub, u) :
          NotRequeued(RemoveUser(Hub, u), OtherUser(ActiveSessions[sessionId], u))
    /\ graceTimers # <<>> =>
          LET u == Head(graceTimers).userId
          IN \A session \in SessionsOf(Hub, u) :
                NotRequeued(OnDisconnectedAfterDelay(Hub, u, Head(graceTimers).name, session),
                            OtherUser(ActiveSessions[session], u))

\* C22: when RemoveUser(u) returns, u has no registry entry and none of its
\* connections a profile, u is in neither the waiting pool (presence set and
\* FIFO) nor the idle set, no session holds u, and every former partner of u
\* is in the idle set and each of its connections was sent PartnerDisconnected.
C22_Post(r, u) ==
    /\ u \notin DOMAIN r.ucm
    /\ \A c \in DOMAIN r.prof : r.prof[c].UserId # u
    /\ u \notin r.wi /\ u \notin Range(r.wq) /\ u \notin r.idle
    /\ SessionsOf(r, u) = {}
    /\ \A s \in SessionsOf(Hub, u) :
          LET b == OtherUser(ActiveSessions[s], u)
          IN b # u =>
                /\ b \in r.idle
                /\ \A cn \in ConnsOf(Hub, b) : SentTo(r, cn, "PartnerDisconnected") # {}

C22_RemoveUserTearsDown == \A u \in Users : C22_Post(RemoveUser(Hub, u), u)

\* C23: an attach without an identity is rejected: the handler sends the
\* connection one Error and aborts it, adds nothing to the registry or to the
\* profiles, and sends no ReceiveConnectionId and no ActiveUserCountUpdated.
C23_Post(r, c) ==
    /\ r.res.aborted
    /\ r.ucm = UserConnectionMap
    /\ r.prof = ConnectionProfiles
    /\ Len(r.out) = 1 /\ r.out[1].to = c /\ r.out[1].method = "Error"
    /\ Relayed(r, {"ReceiveConnectionId", "ActiveUserCountUpdated"}) = {}

C24_RegistryInvariant ==
    \A c \in Conns, u \in Users :
        (c \in ConnsOf(Hub, u))
            <=> (c \in DOMAIN ConnectionProfiles /\ ConnectionProfiles[c].UserId = u)

\* C25: an identity entry with no connection exists only during a grace
\* window: a Task.Delay started for the identity is still pending, and when a
\* delay elapses the identity has a connection again or its entry is removed.
C25_EmptyEntryOnlyInGrace ==
    /\ \A u \in DOMAIN UserConnectionMap :
          UserConnectionMap[u] = {}
              => \E i \in 1..Len(graceTimers) : graceTimers[i].userId = u
    /\ graceTimers # <<>> =>
          LET tm == Head(graceTimers)
          IN \A session \in FirstSessionOf(Hub, tm.userId) :
                LET r == OnDisconnectedAfterDelay(Hub, tm.userId, tm.name, session)
                IN HasConnections(r, tm.userId) \/ tm.userId \notin DOMAIN r.ucm

C25_Witness ==
    /\ graceTimers # <<>>
    /\ LET tm == Head(graceTimers)
       IN /\ tm.userId \in DOMAIN UserConnectionMap
          /\ UserConnectionMap[tm.userId] = {}
          /\ \E session \in FirstSessionOf(Hub, tm.userId) :
                tm.userId \notin
                    DOMAIN OnDisconnectedAfterDelay(Hub, tm.userId, tm.name, session).ucm

\* The connections of fromUser and toUser that are in the call group of the
\* session.
InCallGroup(r, sessionId, fromUser, toUser) ==
    {c \in ConnsOf(r, fromUser) \cup ConnsOf(r, toUser) :
        <<c, CallGroup(sessionId)>> \in r.grp}

\* C26: StartCall puts every connection of both identities in the call group
\* of the session, and after EndCall or RejectCall for the session no
\* connection of either identity is in that group.
C26_CallGroupLifecycle ==
    \A c \in live : \A s \in NamedSessions, u \in Users, v \in Users :
        /\ \A pick \in Resolvers(Hub) :
              InCallGroup(StartCall(Hub, c, s, u, v, pick), s, u, v)
                  = ConnsOf(Hub, u) \cup ConnsOf(Hub, v)
        /\ InCallGroup(EndCall(Hub, s, u, v), s, u, v) = {}
        /\ InCallGroup(RejectCall(Hub, s, u, v), s, u, v) = {}

\* The hub's collections and group membership in r are those of the state,
\* and the handler did not abort the connection.
C27_Post(r) ==
    /\ r.ucm = UserConnectionMap /\ r.prof = ConnectionProfiles
    /\ r.wq = WaitingQueue /\ r.wi = WaitingIndex /\ r.idle = IdleIndex
    /\ r.sess = ActiveSessions /\ r.keys = SessionKeys
    /\ r.grp = Groups
    /\ ~r.res.aborted

\* C27: SendMessage, SendVoiceNote, SendImage, SendSignal, SendTyping,
\* SendTypingStopped and Ping, valid or not, leave the registry, the profiles,
\* the waiting pool, the idle set, the session table and the groups as they
\* were and never abort the caller.
C27_SendsLeaveHubUnchanged ==
    \A c \in live : \A s \in NamedSessions, u \in Users, v \in Users,
                       pick \in Resolvers(Hub) :
        /\ \A m \in Messages : C27_Post(SendMessage(Hub, c, s, m, pick))
        /\ \A a \in Audios : C27_Post(SendVoiceNote(Hub, c, s, a, pick))
        /\ \A i \in Images : C27_Post(SendImage(Hub, s, u, i, pick))
        /\ \A y \in SignalTypes : C27_Post(SendSignal(Hub, s, u, y, "sdp"))
        /\ C27_Post(SendTyping(Hub, u, v, pick))
        /\ C27_Post(SendTypingStopped(Hub, u, v))
        /\ C27_Post(Ping(Hub, c))

C27_Witness ==
    \E c \in Profiled \cap live : \E s \in DOMAIN ActiveSessions, pick \in Resolvers(Hub) :
        /\ IsParticipant(ActiveSessions[s], UserOf(c))
        /\ WaitingIndex # {}
        /\ Groups # {}
        /\ Relayed(SendMessage(Hub, c, s, "hi", pick), {"ReceiveMessage"}) # {}
        /\ Relayed(SendMessage(Hub, c, OldSessionId, "hi", pick), {"Error"}) # {}
        /\ C27_Post(SendMessage(Hub, c, s, "hi", pick))
        /\ C27_Post(SendMessage(Hub, c, OldSessionId, "hi", pick))

\* The hub once the handler that produced r has returned.
Returned(r) == [r EXCEPT !.out = <<>>, !.res = NoRes]

\* C28: two pairing events never produce the same session id: when JoinChat
\* pairs c, c skips that session, and a connection d and then c call JoinChat
\* again (the clock having advanced or not), a second pairing of c has another
\* session id than the first.
C28_SessionIdsUnique ==
    \A c \in Profiled, d \in Profiled : \A key \in Keys, pick \in Resolvers(Hub) :
        LET r1 == JoinChat(Hub, c, now, key, pick)
            h2 == Returned(SkipChat(Returned(r1), c, r1.res.sid, pick))
        IN r1.res.paired =>
              \A t \in now..MaxClock :
                  LET r3 == JoinChat(h2, d, t, key, pick)
                      r4 == JoinChat(Returned(r3), c, t, key, pick)
                  IN r4.res.paired => r4.res.sid # r1.res.sid

\* A Task.Delay of userId started after the oldest one is still running.
YoungerTimer(userId) ==
    \E i \in 2..Len(graceTimers) : graceTimers[i].userId = userId

\* C29: the disconnect handler tears an identity down only if the identity
\* had no connection during a whole grace window: when the delay of a first
\* detach elapses while the delay of a later detach of the same identity is
\* still running, the handler of the first detach does not tear down.
C29_TeardownNeedsFullWindow ==
    graceTimers # <<>> =>
        LET tm == Head(graceTimers)
        IN YoungerTimer(tm.userId) =>
              \A session \in FirstSessionOf(Hub, tm.userId) :
                  ~OnDisconnectedAfterDelay(Hub, tm.userId, tm.name, session).res.teardown

\* userId has a connection, waits for a partner and is in no session.
WaitsForPartner(userId) ==
    /\ HasConnections(Hub, userId)
    /\ userId \in WaitingIndex
    /\ userId \in Range(WaitingQueue)
    /\ SessionsOf(Hub, userId) = {}

\* C30: concurrent JoinChat and NextChat calls of two identities end with the
\* two paired: once every handler has returned, no two distinct identities
\* with connections are both left in the waiting pool without a session.
C30_ConcurrentRequestsPair ==
    (\A c \in Conns : pc[c] = "idle") =>
        \A u \in Users, v \in Users :
            u # v => ~(WaitsForPartner(u) /\ WaitsForPartner(v))

\* C31: under any interleaving of EnqueueWaiting with the snapshot, drain and
\* re-enqueue of RebuildWaitingQueueExcluding, once the handlers have returned
\* every identity in WaitingIndex has an entry in WaitingQueue.
C31_IndexedHasQueueEntry ==
    (\A c \in Conns : pc[c] = "idle") => WaitingIndex \subseteq Range(WaitingQueue)

\* The connections JoinSession would add to a chat group without their
\* profile naming a participant of a session of that id in the table.
Confined(h, m) ==
    /\ m[2] \in DOMAIN h.sess
    /\ m[1] \in DOMAIN h.prof
    /\ IsParticipant(h.sess[m[2]], h.prof[m[1]].UserId)

\* C32: every connection in the group of a session of the table belongs to one
\* of its two participants, and JoinSession adds no connection of a
\* non-participant, and no connection for a session id that is not in the
\* table, to a group.
C32_GroupConfinement ==
    /\ \A m \in Groups : m[2] \in DOMAIN ActiveSessions => Confined(Hub, m)
    /\ \A c \in live : \A s \in NamedSessions, u \in Users :
          LET r == JoinSession(Hub, c, s, u)
          IN \A m \in r.grp \ Groups : Confined(Hub, m)

\* C33: in every reachable state a participant of a session of the table is
\* neither in WaitingIndex nor in IdleIndex.
C33_ParticipantNotPooled ==
    \A s \in DOMAIN ActiveSessions : \A u \in Users :
        IsParticipant(ActiveSessions[s], u) => u \notin WaitingIndex \cup IdleIndex

\* C34: an identity that waits when its last connection c detaches and that
\* reattaches on c2 within the grace window is still in the waiting pool after
\* the reattach, also when a connection d of another identity called JoinChat
\* in between.
C34_WaitingSurvivesReattach ==
    \A c \in Profiled :
        LET u == UserOf(c)
            r1 == Returned(OnDisconnectedAsync(Hub, c))
        IN (u \in WaitingIndex /\ u \in Range(WaitingQueue) /\ ConnsOf(Hub, u) = {c}) =>
              \A d \in Profiled \ {c}, c2 \in Conns \ (live \cup {c}) :
                  \A t \in now..MaxClock, key \in Keys, pick \in Resolvers(r1) :
                      LET r2 == Returned(JoinChat(r1, d, t, key, pick))
                          r3 == OnConnectedAsync(r2, c2, u)
                      IN Owner(c2) = u => u \in r3.wi /\ u \in Range(r3.wq)

\* C35: when JoinChat creates a session both participants have a connection:
\* the caller is never paired with a dequeued identity whose connection set is
\* absent or empty.
C35_Post(r) ==
    r.res.paired =>
        /\ HasConnections(Hub, r.res.user) /\ LiveConnsOf(r.res.user) # {}
        /\ HasConnections(Hub, r.res.matched) /\ LiveConnsOf(r.res.matched) # {}
        /\ r.res.sid \in DOMAIN r.sess
        /\ r.sess[r.res.sid] = [user1 |-> r.res.user, user2 |-> r.res.matched]

C36_Post(r, c) ==
    r.res.hit =>
        /\ r.res.user \in r.wi /\ r.res.user \in Range(r.wq)
        /\ SentTo(r, c, "Waiting") # {}
        /\ r.res.sid \notin DOMAIN r.sess
        /\ \/ r.res.matched \in r.wi /\ r.res.matched \in Range(r.wq)
           \/ ReachesAll(r, r.res.matched, "SessionUpdate")

C36_FailedJoinLeavesNoSession ==
    \A c \in Profiled : \A key \in Keys, pick \in Resolvers(Hub), point \in AwaitPoints :
        C36_Post(JoinChatThrows(Hub, c, now, key, pick, point), c)

\* C37: the call state of a client becomes in-call only from calling or
\* incoming: a CallAccepted handled while the client is idle leaves it idle.
C37_InCallOnlyFromCallingOrIncoming ==
    [][\A c \in Conns :
          (callState'[c] = "in-call" /\ callState[c] # "in-call")
              => callState[c] \in {"calling", "incoming"}]_vars

\* C38: once endCall or rejectCall was invoked and no startCall since, a
\* client that has handled every event sent to it is idle, also when the
\* CallAccepted of a concurrent acceptCall was sent after the CallEnded or
\* CallRejected.
C38_TerminationStable ==
    ended => \A c \in listening \cap live : inbox[c] = <<>> => callState[c] = "idle"

\* C39: a client that has handled every event sent to it shows a chat only
\* while its identity is in a session: after PartnerDisconnected, as after
\* PartnerSkipped and YouSkipped, it has left the chatting state.
C39_TeardownReachesClient ==
    \A c \in listening \cap Profiled :
        (inbox[c] = <<>> /\ currentState[c] = "chatting")
            => SessionsOf(Hub, UserOf(c)) # {}

\* C40: calling EnqueueWaiting(U) twice with no removal in between leaves the
\* idle set, the waiting presence set and the FIFO as calling it once does,
\* and after it U is not in the idle set.
C40_EnqueueIdempotent ==
    \A u \in Users :
        LET once == EnqueueWaiting(Hub, u)
            twice == EnqueueWaiting(once, u)
        IN /\ twice.idle = once.idle
           /\ twice.wi = once.wi
           /\ twice.wq = once.wq
           /\ u \notin once.idle

\* An idle identity outside the waiting pool, which one call moves into it.
C40_Witness ==
    \E u \in IdleIndex :
        /\ u \notin WaitingIndex
        /\ EnqueueWaiting(Hub, u).wq = Append(WaitingQueue, u)
        /\ u \in EnqueueWaiting(Hub, u).wi

====
